---- MODULE Spec2Model ----
(***************************************************************************)
(* confy: a caching accessor for documents of a Vault KV store, with an    *)
(* optional override from the environment (confy.go).                      *)
(*                                                                         *)
(* Go strings are sequences of one-character strings, so that TrimPrefix,  *)
(* Replace, ToUpper and SplitN are computed character by character.        *)
(* The cache is the ttlcache/v3 cache the client builds with WithTTL only: *)
(* an item expires once the clock is past its expiresAt, a hit moves       *)
(* expiresAt to now + ttl (touch on hit is the default of that library and *)
(* the client does not disable it), Set stores the value with              *)
(* expiresAt = now + ttl.                                                  *)
(***************************************************************************)
EXTENDS Integers, Sequences, FiniteSets, TLC

VARIABLES
    envOverride,  \* confyImpl.envOverride
    env,          \* the process environment: variable name -> value
    ttl,          \* confyImpl.ttl, in seconds (ticks)
    given,        \* history: the cacheTTL the client was built with
    store,        \* the Vault KV v1 mount "secret": document key -> response
    cache,        \* confyImpl.cache: document key -> item (present keys only)
    now,          \* the clock, in ticks
    call,         \* per caller: the Get call it is in
    loads,        \* history: per key, when it was last Set, the document
                  \* set and whether a Get has looked it up since
    god,          \* per caller: the GetOrDefault call it is in
    closed,       \* confyImpl.closed
    sweeper,      \* the cache's expiration loop (go cache.Start())
    stops,        \* how often cache.Stop() has returned
    released,     \* how often the store client was released (client.Close)
    closing,      \* per caller: the Close call it is in
    watch,        \* the Watch registration: its polling goroutine
    cancel,       \* per caller: the call of the cancel handle it is in
    acc           \* the last accessor applied to a Value and what it returned

\* the state outside the Get path
ext == <<god, closed, sweeper, stops, released, closing, watch, cancel, acc>>

vars == <<envOverride, env, ttl, given, store, cache, now, call, loads, ext>>

----------------------------------------------------------------------------
(* Bounds and configuration *)

MaxTime == 3

\* cacheTTL handed to new(), in ticks
cacheTTL == 2

Procs == {"g1", "g2"}

\* 5 * time.Minute and 30 * time.Second, in seconds
DefaultCacheTTL == 300
MinimumCacheTTL == 30

\* New without the floor
EffectiveTTLNoFloor(d) == IF d = 0 THEN DefaultCacheTTL ELSE d

\* the cacheTTL New hands to new(): 0 is the default, the minimum is a floor
EffectiveTTL(d) ==
    LET a == IF d = 0 THEN DefaultCacheTTL ELSE d
    IN  IF a < MinimumCacheTTL THEN MinimumCacheTTL ELSE a

\* new(client, cacheTTL, envOverride): the TTL of the cache and of the client
new(d) == ttl = d

\* New(client, cacheTTL, envOverride)
New(d) == new(EffectiveTTL(d))

\* the cacheTTL arguments New is called with, in seconds
TTLInputs == {-5, -1, 0, 1, 29, 30, 31, 299, 300, 301}

----------------------------------------------------------------------------
(* Values *)

EmptyDoc == [f \in {} |-> 0]

\* a raw decoded field value (a string)
Str(s) == [kind |-> "string", str |-> s, map |-> EmptyDoc, bool |-> FALSE, list |-> <<>>]

\* a whole document, or a JSON object, as a raw value (map[string]any)
MapVal(d) == [kind |-> "map", str |-> "", map |-> d, bool |-> FALSE, list |-> <<>>]

\* the nil interface value (JSON null)
NoRaw == [kind |-> "none", str |-> "", map |-> EmptyDoc, bool |-> FALSE, list |-> <<>>]

\* a native boolean
BoolVal(b) == [kind |-> "bool", str |-> "", map |-> EmptyDoc, bool |-> b, list |-> <<>>]

\* a json.Number: the number's text
Number(s) == [kind |-> "number", str |-> s, map |-> EmptyDoc, bool |-> FALSE, list |-> <<>>]

\* a JSON array ([]any)
SliceVal(l) == [kind |-> "slice", str |-> "", map |-> EmptyDoc, bool |-> FALSE, list |-> l]

\* &value{val: raw}
NewValue(raw) == [nil |-> FALSE, val |-> raw]

\* a nil Value
NilValue == [nil |-> TRUE, val |-> NoRaw]

NoError == [nil |-> TRUE, msg |-> "", field |-> <<>>, path |-> <<>>, cause |-> ""]

\* fmt.Errorf("could not get secret from Vault: %w", err)
ErrVaultNoCause(cause) ==
    [nil |-> FALSE, msg |-> "could not get secret from Vault",
     field |-> <<>>, path |-> <<>>, cause |-> ""]

\* fmt.Errorf("could not get secret from Vault: %w", err)
ErrVault(cause) ==
    [nil |-> FALSE, msg |-> "could not get secret from Vault",
     field |-> <<>>, path |-> <<>>, cause |-> cause]

\* errors.New("no value found")
ErrNoValue ==
    [nil |-> FALSE, msg |-> "no value found", field |-> <<>>, path |-> <<>>, cause |-> ""]

\* fmt.Errorf("field '%s' on path '%s' was not found", fieldName, path)
ErrField(fieldName, path) ==
    [nil |-> FALSE, msg |-> "field was not found",
     field |-> fieldName, path |-> path, cause |-> ""]

----------------------------------------------------------------------------
(* Strings *)

SecretPrefix == <<"s", "e", "c", "r", "e", "t", "/">>

HasPrefix(s, prefix) ==
    /\ Len(s) >= Len(prefix)
    /\ SubSeq(s, 1, Len(prefix)) = prefix

RECURSIVE ReplaceAllEmpty(_, _)
\* strings.ReplaceAll(s, old, ""): every occurrence removed
ReplaceAllEmpty(s, old) ==
    IF s = <<>> THEN <<>>
    ELSE IF HasPrefix(s, old) THEN ReplaceAllEmpty(SubSeq(s, Len(old) + 1, Len(s)), old)
    ELSE <<Head(s)>> \o ReplaceAllEmpty(Tail(s), old)

\* strings.TrimPrefix: one leading occurrence, if any
TrimPrefix(s, prefix) ==
    IF HasPrefix(s, prefix) THEN SubSeq(s, Len(prefix) + 1, Len(s)) ELSE s

ReplaceSlashOnly(s) ==
    [i \in 1..Len(s) |-> IF s[i] = "/" THEN "_" ELSE s[i]]

\* strings.NewReplacer("/", "_", "#", "_").Replace
replacer(s) ==
    [i \in 1..Len(s) |-> IF s[i] \in {"/", "#"} THEN "_" ELSE s[i]]

UpperChar(c) ==
    CASE c = "a" -> "A"
      [] c = "b" -> "B"
      [] c = "c" -> "C"
      [] c = "e" -> "E"
      [] c = "f" -> "F"
      [] c = "g" -> "G"
      [] c = "r" -> "R"
      [] c = "s" -> "S"
      [] c = "t" -> "T"
      [] OTHER -> c

\* strings.ToUpper
ToUpper(s) == [i \in 1..Len(s) |-> UpperChar(s[i])]

\* strings.Index for a one-character separator; 0 when absent
Index(s, sep) ==
    IF \E i \in 1..Len(s) : s[i] = sep
    THEN CHOOSE i \in 1..Len(s) : s[i] = sep /\ \A j \in 1..(i - 1) : s[j] # sep
    ELSE 0

\* strings.Split(s, sep), of which the first two parts are used
SplitAll(s, sep) ==
    LET i == Index(s, sep)
    IN  IF i = 0 THEN <<s>>
        ELSE LET rest == SubSeq(s, i + 1, Len(s))
                 j == Index(rest, sep)
             IN  <<SubSeq(s, 1, i - 1),
                   IF j = 0 THEN rest ELSE SubSeq(rest, 1, j - 1)>>

\* strings.SplitN(s, sep, 2)
SplitN(s, sep) ==
    LET i == Index(s, sep)
    IN  IF i = 0 THEN <<s>> ELSE <<SubSeq(s, 1, i - 1), SubSeq(s, i + 1, Len(s))>>

----------------------------------------------------------------------------
(* The paths callers pass, the documents of the store, the environment *)

KeyA == <<"a">>
KeyB == <<"b">>
KeySecretA == SecretPrefix \o <<"a">>

FieldF == <<"f">>
FieldG == <<"g">>
FieldFG == <<"f", "#", "g">>

WithField(key, fieldName) == key \o <<"#">> \o fieldName

\* the paths of concurrent callers
ConcPaths == {KeyA, WithField(KeyA, FieldF), WithField(KeyA, FieldG)}

\* the paths the addressing scheme is exercised on
AllPaths ==
    ConcPaths \cup
    { SecretPrefix \o WithField(KeyA, FieldF),
      SecretPrefix \o KeyA,
      SecretPrefix \o SecretPrefix \o KeyA,
      WithField(KeyA, FieldFG),
      WithField(KeyA, <<>>),
      WithField(KeyA, SecretPrefix \o FieldF),
      WithField(KeyB, FieldF) }

Keys == {KeyA, KeyB, KeySecretA}

Doc1 == (FieldF :> Str("v1")) @@ (FieldFG :> Str("w1"))
Doc2 == (FieldF :> Str("v2"))
Doc3 == (FieldF :> Str("v3"))

Found(d) == [ok |-> TRUE, data |-> d, err |-> ""]
NotFound == [ok |-> FALSE, data |-> EmptyDoc, err |-> "secret not found"]

\* what the store may hold under each key
StoreChoices(k) ==
    IF k = KeyA THEN {Found(Doc1), Found(Doc2), NotFound}
    ELSE IF k = KeyB THEN {Found(Doc2), NotFound}
    ELSE {Found(Doc3)}

EnvAF == <<"A", "_", "F">>
EnvSecretAF == <<"S", "E", "C", "R", "E", "T", "_", "A", "_", "F">>
EnvSecretA == <<"S", "E", "C", "R", "E", "T", "_", "A">>

NoEnv == [n \in {} |-> ""]

\* the environment of the concurrent runs
ConcEnv == (EnvAF :> "ov")

\* the environments the addressing scheme is exercised on
AllEnvs ==
    { NoEnv,
      ConcEnv,
      (EnvAF :> ""),
      (EnvSecretAF :> "ov2"),
      (EnvAF :> "ov") @@ (EnvSecretA :> "ov3") }

\* os.Getenv
Getenv(name) == IF name \in DOMAIN env THEN env[name] ELSE ""

----------------------------------------------------------------------------
(* The cache *)

\* Item.isExpiredUnsafe
isExpired(item) == item.ttl > 0 /\ item.expiresAt < now

\* Cache.get: the item of a present, unexpired key
CacheHit(key) == key \in DOMAIN cache /\ ~isExpired(cache[key])

\* Item.touch on a hit (touch on hit is not disabled)
touch(item) ==
    IF item.ttl > 0 THEN [item EXCEPT !.expiresAt = now + item.ttl] ELSE item

\* Cache.Set with the given ttl
SetItem(key, data, itemTTL) ==
    [k \in DOMAIN cache \cup {key} |->
        IF k = key THEN [value |-> data, ttl |-> itemTTL, expiresAt |-> now + itemTTL]
        ELSE cache[k]]

\* Set with ttlcache.NoTTL (-1): the item never expires
CacheSetNoTTL(key, data) == SetItem(key, data, -1)

\* the loader returns without storing the item
CacheSetSkipped(key, data) == cache

\* cache.Set(key, resp.Data, ttlcache.DefaultTTL): the ttl of WithTTL
CacheSet(key, data) == SetItem(key, data, ttl)

\* a loader that stores what the failed response holds, an empty document
LoadedAnyway(key, resp) == CacheSet(key, resp.data)

\* the cache after the loader ran: on an error it returns nil before Set
Loaded(key, resp) == IF resp.ok THEN CacheSet(key, resp.data) ELSE cache

----------------------------------------------------------------------------
(* Get *)

Idle ==
    [pc |-> "idle", raw |-> <<>>, key |-> <<>>, field |-> <<>>, envKey |-> <<>>,
     from |-> "", fetches |-> 0, resp |-> NotFound, doc |-> EmptyDoc,
     item |-> FALSE, v |-> NilValue, err |-> NoError, age |-> -1, first |-> FALSE]

\* envKey := strings.ToUpper(replacer.Replace(path))
EnvKey(path) == ToUpper(replacer(path))

\* parts := strings.SplitN(path, "#", 2); path = parts[0]
DocumentKey(path) == SplitN(path, "#")[1]

\* if len(parts) > 1 { fieldName = parts[1] }
FieldName(path) ==
    LET parts == SplitN(path, "#")
    IN  IF Len(parts) > 1 THEN parts[2] ELSE <<>>

OverrideInverted(envValue) == envOverride /\ envValue = ""

OverrideIgnoresFlag(envValue) == envValue # ""

\* if c.envOverride { ... if envValue != "" { return } }
OverrideApplies(envValue) == envOverride /\ envValue # ""

\* the singleflight group of the loader a Get call builds: createLoader is
\* called in every Get and passes a nil group, so each call has its own
LoaderGroup(p) == p

\* the caller is executing the loader function (between the miss and the
\* return of Load)
Loading(p) == call[p].pc \in {"load", "fetched"}

\* singleflight.Group.Do: a call of the same group and key is in flight
InFlight(p, key) ==
    \E q \in Procs \ {p} :
        /\ Loading(q)
        /\ LoaderGroup(q) = LoaderGroup(p)
        /\ call[q].key = key

ProjectUnchecked(doc, fieldName, key) ==
    IF fieldName # <<>>
    THEN [v |-> NewValue(IF fieldName \in DOMAIN doc THEN doc[fieldName] ELSE NoRaw),
          err |-> NoError]
    ELSE [v |-> NewValue(MapVal(doc)), err |-> NoError]

\* if fieldName != "" { ... } return &value{val: v.Value()}, nil
Project(doc, fieldName, key) ==
    IF fieldName # <<>>
    THEN IF fieldName \in DOMAIN doc
         THEN [v |-> NewValue(doc[fieldName]), err |-> NoError]
         ELSE [v |-> NilValue, err |-> ErrField(fieldName, key)]
    ELSE [v |-> NewValue(MapVal(doc)), err |-> NoError]

\* time since the last Set of the key; -1 when it was never set
Age(key) == IF loads[key].at < 0 THEN -1 ELSE now - loads[key].at

\* Get up to the cache lookup: prefix, override, split, cache.Get
Get(p, path) ==
    /\ call[p].pc = "idle"
    /\ LET tp == TrimPrefix(path, SecretPrefix)
           envKey == EnvKey(tp)
           envValue == Getenv(envKey)
           key == DocumentKey(tp)
           fieldName == FieldName(tp)
           base == [Idle EXCEPT !.raw = path,
                                !.envKey = IF envOverride THEN envKey ELSE <<>>]
       IN  IF OverrideApplies(envValue)
           THEN /\ call' = [call EXCEPT ![p] =
                        [base EXCEPT !.pc = "done", !.from = "env",
                                     !.v = NewValue(Str(envValue))]]
                /\ UNCHANGED <<cache, loads>>
           ELSE LET looked == [base EXCEPT !.key = key, !.field = fieldName,
                                           !.age = Age(key),
                                           !.first = ~loads[key].seen]
                IN  /\ loads' = [loads EXCEPT ![key].seen = TRUE]
                    /\ IF CacheHit(key)
                       THEN LET r == Project(cache[key].value, fieldName, key)
                            IN  /\ cache' = [cache EXCEPT ![key] = touch(@)]
                                /\ call' = [call EXCEPT ![p] =
                                       [looked EXCEPT !.pc = "done", !.from = "cache",
                                                      !.item = TRUE,
                                                      !.doc = cache[key].value,
                                                      !.v = r.v, !.err = r.err]]
                       ELSE /\ cache' = cache
                            /\ call' = [call EXCEPT ![p] =
                                   [looked EXCEPT !.pc =
                                       IF InFlight(p, key) THEN "wait" ELSE "load"]]
    /\ UNCHANGED <<ext, envOverride, env, ttl, given, store, now>>

\* the loader's call of the store: KVv1("secret").Get(ctx, key)
Fetch(p) ==
    /\ call[p].pc = "load"
    /\ call' = [call EXCEPT ![p].pc = "fetched",
                            ![p].resp = store[call[p].key],
                            ![p].fetches = @ + 1]
    /\ UNCHANGED <<ext, envOverride, env, ttl, given, store, cache, now, loads>>

\* what Get returns to a caller that shared another call's load: the item,
\* or "no value found" (its own errBucket was never written)
Shared(c, resp) ==
    IF resp.ok
    THEN LET r == Project(resp.data, c.field, c.key)
         IN  [c EXCEPT !.pc = "done", !.from = "shared", !.item = TRUE,
                       !.doc = resp.data, !.v = r.v, !.err = r.err]
    ELSE [c EXCEPT !.pc = "done", !.from = "shared", !.err = ErrNoValue]

\* the rest of the loader and of Get: errBucket or cache.Set, then projection
Load(p) ==
    /\ call[p].pc = "fetched"
    /\ LET c == call[p]
           waiters == {q \in Procs \ {p} :
                          /\ call[q].pc = "wait"
                          /\ LoaderGroup(q) = LoaderGroup(p)
                          /\ call[q].key = c.key}
           mine == IF c.resp.ok
                   THEN LET r == Project(c.resp.data, c.field, c.key)
                        IN  [c EXCEPT !.pc = "done", !.from = "store", !.item = TRUE,
                                      !.doc = c.resp.data, !.v = r.v, !.err = r.err]
                   ELSE [c EXCEPT !.pc = "done", !.from = "store",
                                  !.err = ErrVault(c.resp.err)]
       IN  /\ call' = [q \in Procs |->
                          IF q = p THEN mine
                          ELSE IF q \in waiters THEN Shared(call[q], c.resp)
                          ELSE call[q]]
           /\ cache' = Loaded(c.key, c.resp)
           /\ IF c.resp.ok
              THEN loads' = [loads EXCEPT ![c.key] =
                                [at |-> now, seen |-> FALSE, doc |-> c.resp.data]]
              ELSE UNCHANGED loads
    /\ UNCHANGED <<ext, envOverride, env, ttl, given, store, now>>

\* the caller takes the result and is free to call again
Return(p) ==
    /\ call[p].pc = "done"
    /\ call' = [call EXCEPT ![p] = Idle]
    /\ UNCHANGED <<ext, envOverride, env, ttl, given, store, cache, now, loads>>

----------------------------------------------------------------------------
(* The environment of the client *)

\* the cache's expiration loop (cache.Start) deletes the expired items
Sweep ==
    /\ sweeper = "running"
    /\ \E k \in DOMAIN cache : isExpired(cache[k])
    /\ cache' = [k \in {j \in DOMAIN cache : ~isExpired(cache[j])} |-> cache[k]]
    /\ UNCHANGED <<ext, envOverride, env, ttl, given, store, now, call, loads>>

\* somebody writes or deletes a document of the store
StoreWrite(k, w) ==
    /\ w # store[k]
    /\ store' = [store EXCEPT ![k] = w]
    /\ UNCHANGED <<ext, envOverride, env, ttl, given, cache, now, call, loads>>

Tick ==
    /\ now < MaxTime
    /\ now' = now + 1
    /\ UNCHANGED <<ext, envOverride, env, ttl, given, store, cache, call, loads>>

----------------------------------------------------------------------------
(* Value accessors *)

\* the characters of the texts that occur as raw strings and numbers
Chars ==
    ("" :> <<>>) @@
    ("v1" :> <<"v", "1">>) @@ ("v2" :> <<"v", "2">>) @@ ("v3" :> <<"v", "3">>) @@
    ("w1" :> <<"w", "1">>) @@ ("ov" :> <<"o", "v">>) @@ ("foo" :> <<"f", "o", "o">>) @@
    ("true" :> <<"t", "r", "u", "e">>) @@
    ("false" :> <<"f", "a", "l", "s", "e">>) @@
    ("T" :> <<"T">>) @@ ("0" :> <<"0">>) @@ ("1" :> <<"1">>) @@
    ("notabool" :> <<"n", "o", "t", "a", "b", "o", "o", "l">>) @@
    ("42" :> <<"4", "2">>) @@ ("-7" :> <<"-", "7">>) @@ ("+5" :> <<"+", "5">>) @@
    ("-" :> <<"-">>) @@ ("4x" :> <<"4", "x">>) @@
    ("1.5" :> <<"1", ".", "5">>) @@ (".5" :> <<".", "5">>) @@
    ("1e3" :> <<"1", "e", "3">>) @@ ("1e" :> <<"1", "e">>) @@
    ("1.2.3" :> <<"1", ".", "2", ".", "3">>) @@
    ("3s" :> <<"3", "s">>) @@ ("15ms" :> <<"1", "5", "m", "s">>) @@
    ("1m30s" :> <<"1", "m", "3", "0", "s">>) @@
    ("1.5h" :> <<"1", ".", "5", "h">>) @@ ("-2m" :> <<"-", "2", "m">>) @@
    ("7us" :> <<"7", "u", "s">>) @@ ("3d" :> <<"3", "d">>) @@ (".s" :> <<".", "s">>)

Texts == DOMAIN Chars

DigitChars == {"0", "1", "2", "3", "4", "5", "6", "7", "8", "9"}

\* the characters in byte order
ByteOrder ==
    <<"0", "1", "2", "3", "4", "5", "6", "7", "8", "9",
      "a", "b", "c", "d", "e", "f", "g", "h", "i", "j", "k", "l", "m",
      "n", "o", "p", "q", "r", "s", "t", "u", "v", "w", "x", "y", "z">>

Rank(c) == CHOOSE i \in 1..Len(ByteOrder) : ByteOrder[i] = c

RECURSIVE Before(_, _)
\* a < b for strings
Before(a, b) ==
    IF b = <<>> THEN FALSE
    ELSE IF a = <<>> THEN TRUE
    ELSE IF a[1] = b[1] THEN Before(Tail(a), Tail(b))
    ELSE Rank(a[1]) < Rank(b[1])

\* fmt's answer to a value that %s cannot print: %!s(type=value)
BadVerb(type, text) == <<"%", "!", "s", "(">> \o type \o <<"=">> \o text \o <<")">>

RECURSIVE Format(_), FormatEntries(_, _), FormatElems(_)

\* the entries of a map under %s, keys in sorted order
FormatEntries(d, keys) ==
    IF keys = {} THEN <<>>
    ELSE LET k == CHOOSE x \in keys : \A y \in keys \ {x} : Before(x, y)
             rest == keys \ {k}
         IN  k \o <<":">> \o Format(d[k])
               \o (IF rest = {} THEN <<>> ELSE <<" ">> \o FormatEntries(d, rest))

\* the elements of a slice under %s
FormatElems(l) ==
    IF l = <<>> THEN <<>>
    ELSE Format(Head(l))
           \o (IF Tail(l) = <<>> THEN <<>> ELSE <<" ">> \o FormatElems(Tail(l)))

\* fmt.Sprintf("%s", v.val)
Format(raw) ==
    CASE raw.kind = "string" -> Chars[raw.str]
      [] raw.kind = "number" -> Chars[raw.str]
      [] raw.kind = "bool" ->
            BadVerb(<<"b", "o", "o", "l">>,
                    IF raw.bool THEN Chars["true"] ELSE Chars["false"])
      [] raw.kind = "map" ->
            <<"m", "a", "p", "[">> \o FormatEntries(raw.map, DOMAIN raw.map) \o <<"]">>
      [] raw.kind = "slice" -> <<"[">> \o FormatElems(raw.list) \o <<"]">>
      [] OTHER -> <<"%", "!", "s", "(", "<", "n", "i", "l", ">", ")">>

\* value.String
String(v) == IF v.val.kind = "string" THEN Chars[v.val.str] ELSE Format(v.val)

\* value.Data: m, ok := v.val.(map[string]any)
Data(v) ==
    IF v.val.kind = "map"
    THEN [val |-> v.val.map, ok |-> TRUE]
    ELSE [val |-> EmptyDoc, ok |-> FALSE]

\* strconv.ParseBool
ParseBool(t) ==
    IF t \in {<<"1">>, <<"t">>, <<"T">>, <<"T", "R", "U", "E">>,
              <<"t", "r", "u", "e">>, <<"T", "r", "u", "e">>}
    THEN [val |-> TRUE, ok |-> TRUE]
    ELSE IF t \in {<<"0">>, <<"f">>, <<"F">>, <<"F", "A", "L", "S", "E">>,
                   <<"f", "a", "l", "s", "e">>, <<"F", "a", "l", "s", "e">>}
    THEN [val |-> FALSE, ok |-> TRUE]
    ELSE [val |-> FALSE, ok |-> FALSE]

\* Bool that hands on whatever the parser left in b
BoolUnchecked(v) ==
    IF v.val.kind = "bool"
    THEN [val |-> v.val.bool, ok |-> TRUE]
    ELSE [val |-> ParseBool(Format(v.val)).val, ok |-> TRUE]

\* value.Bool
Bool(v) ==
    IF v.val.kind = "bool"
    THEN [val |-> v.val.bool, ok |-> TRUE]
    ELSE LET r == ParseBool(Format(v.val))
         IN  IF ~r.ok THEN [val |-> FALSE, ok |-> FALSE]
             ELSE [val |-> r.val, ok |-> TRUE]

IsDigits(t) == Len(t) > 0 /\ \A i \in 1..Len(t) : t[i] \in DigitChars

DigitVal(c) == Rank(c) - 1

RECURSIVE DigitsVal(_)
\* the number a string of decimal digits spells
DigitsVal(t) ==
    IF t = <<>> THEN 0
    ELSE DigitsVal(SubSeq(t, 1, Len(t) - 1)) * 10 + DigitVal(t[Len(t)])

HasSign(t) == Len(t) > 0 /\ t[1] \in {"+", "-"}

Unsigned(t) == IF HasSign(t) THEN Tail(t) ELSE t

Sign(t) == IF Len(t) > 0 /\ t[1] = "-" THEN -1 ELSE 1

\* strconv.ParseInt(s, 10, 64), on texts short enough not to overflow
ParseInt(t) ==
    IF IsDigits(Unsigned(t))
    THEN [val |-> Sign(t) * DigitsVal(Unsigned(t)), ok |-> TRUE]
    ELSE [val |-> 0, ok |-> FALSE]

\* the position of the first character of t that is in set, 0 if none
IndexAny(t, set) ==
    IF \E i \in 1..Len(t) : t[i] \in set
    THEN CHOOSE i \in 1..Len(t) : t[i] \in set /\ \A j \in 1..(i - 1) : t[j] \notin set
    ELSE 0

NoFloat == [mant |-> 0, exp |-> 0]

\* strconv.ParseFloat(s, 64) on decimal texts, the float as mant * 10^exp
\* (hexadecimal, infinity and NaN texts are not among Texts)
ParseFloat(t) ==
    LET u == Unsigned(t)
        e == IndexAny(u, {"e", "E"})
        m == IF e = 0 THEN u ELSE SubSeq(u, 1, e - 1)
        x == IF e = 0 THEN <<>> ELSE SubSeq(u, e + 1, Len(u))
        dot == IndexAny(m, {"."})
        intp == IF dot = 0 THEN m ELSE SubSeq(m, 1, dot - 1)
        fracp == IF dot = 0 THEN <<>> ELSE SubSeq(m, dot + 1, Len(m))
        mantOk == /\ intp \o fracp # <<>>
                  /\ \A i \in 1..Len(intp) : intp[i] \in DigitChars
                  /\ \A i \in 1..Len(fracp) : fracp[i] \in DigitChars
        expOk == e = 0 \/ IsDigits(Unsigned(x))
    IN  IF mantOk /\ expOk
        THEN [val |-> [mant |-> Sign(t) * DigitsVal(intp \o fracp),
                       exp |-> (IF e = 0 THEN 0 ELSE Sign(x) * DigitsVal(Unsigned(x)))
                                 - Len(fracp)],
              ok |-> TRUE]
        ELSE [val |-> NoFloat, ok |-> FALSE]

\* value.Float64: a json.Number parses its own text, anything else its %s text
Float64(v) ==
    LET r == ParseFloat(Format(v.val))
    IN  IF ~r.ok THEN [val |-> NoFloat, ok |-> FALSE] ELSE [val |-> r.val, ok |-> TRUE]

\* value.Int64: a json.Number parses its own text, anything else its %s text
Int64(v) ==
    LET r == ParseInt(Format(v.val))
    IN  IF ~r.ok THEN [val |-> 0, ok |-> FALSE] ELSE [val |-> r.val, ok |-> TRUE]

\* value.Int (Int is the set of integers here): int(i), ok of v.Int64()
IntOf(v) == [val |-> Int64(v).val, ok |-> Int64(v).ok]

\* value.Map
Map(v) ==
    IF v.val.kind # "map"
    THEN [val |-> EmptyDoc, ok |-> FALSE]
    ELSE [val |-> [k \in DOMAIN v.val.map |->
                      IF v.val.map[k].kind = "string"
                      THEN Chars[v.val.map[k].str]
                      ELSE Format(v.val.map[k])],
          ok |-> TRUE]

\* value.StringSlice
StringSlice(v) ==
    IF v.val.kind # "slice"
    THEN [val |-> <<>>, ok |-> FALSE]
    ELSE [val |-> [i \in 1..Len(v.val.list) |->
                      IF v.val.list[i].kind = "string"
                      THEN Chars[v.val.list[i].str]
                      ELSE Format(v.val.list[i])],
          ok |-> TRUE]

\* the number of leading characters of t that are in set
Span(t, set) ==
    CHOOSE n \in 0..Len(t) :
        /\ \A i \in 1..n : t[i] \in set
        /\ n = Len(t) \/ t[n + 1] \notin set

\* time's unitMap, a unit as mul/div milliseconds
UnitMap ==
    (<<"n", "s">> :> [mul |-> 1, div |-> 1000000]) @@
    (<<"u", "s">> :> [mul |-> 1, div |-> 1000]) @@
    (<<"m", "s">> :> [mul |-> 1, div |-> 1]) @@
    (<<"s">> :> [mul |-> 1000, div |-> 1]) @@
    (<<"m">> :> [mul |-> 60000, div |-> 1]) @@
    (<<"h">> :> [mul |-> 3600000, div |-> 1])

RECURSIVE Pow10(_)
Pow10(n) == IF n = 0 THEN 1 ELSE 10 * Pow10(n - 1)

RECURSIVE DurationGroups(_)
\* the loop of time.ParseDuration over the groups number-unit, the
\* duration in whole milliseconds
DurationGroups(t) ==
    IF t = <<>> THEN [val |-> 0, ok |-> TRUE]
    ELSE LET pl == Span(t, DigitChars)
             intp == SubSeq(t, 1, pl)
             t1 == SubSeq(t, pl + 1, Len(t))
             dotted == Len(t1) > 0 /\ t1[1] = "."
             t2 == IF dotted THEN Tail(t1) ELSE t1
             fl == IF dotted THEN Span(t2, DigitChars) ELSE 0
             fracp == SubSeq(t2, 1, fl)
             t3 == SubSeq(t2, fl + 1, Len(t2))
             ul == Span(t3, {c \in {t3[i] : i \in 1..Len(t3)} : c \notin DigitChars \cup {"."}})
             unit == SubSeq(t3, 1, ul)
             rest == SubSeq(t3, ul + 1, Len(t3))
         IN  IF \/ t[1] \notin DigitChars \cup {"."}
                \/ pl = 0 /\ fl = 0
                \/ ul = 0
                \/ unit \notin DOMAIN UnitMap
             THEN [val |-> 0, ok |-> FALSE]
             ELSE LET u == UnitMap[unit]
                      here == (DigitsVal(intp) * u.mul) \div u.div
                                + (DigitsVal(fracp) * u.mul) \div (Pow10(fl) * u.div)
                      more == DurationGroups(rest)
                  IN  IF more.ok THEN [val |-> here + more.val, ok |-> TRUE]
                      ELSE [val |-> 0, ok |-> FALSE]

\* time.ParseDuration
ParseDuration(t) ==
    LET u == Unsigned(t)
    IN  IF u = <<>> THEN [val |-> 0, ok |-> FALSE]
        ELSE IF u = <<"0">> THEN [val |-> 0, ok |-> TRUE]
        ELSE LET r == DurationGroups(u)
             IN  IF r.ok THEN [val |-> Sign(t) * r.val, ok |-> TRUE] ELSE r

\* value.Duration
Duration(v) ==
    LET r == ParseDuration(String(v))
    IN  IF ~r.ok THEN [val |-> 0, ok |-> FALSE] ELSE [val |-> r.val, ok |-> TRUE]

\* the raw values of every type a field may hold
RawValues ==
    { BoolVal(TRUE), BoolVal(FALSE), NoRaw,
       Str("true"), Str("false"), Str("T"), Str("0"), Str("1"), Str("notabool"), Str(""),
       Str("42"), Str("-7"), Str("+5"), Str("-"), Str("4x"),
       Str("1.5"), Str(".5"), Str("1e3"), Str("1e"), Str("1.2.3"),
       Number("42"), Number("1.5"), Number("-7"),
       Str("3s"), Str("15ms"), Str("1m30s"), Str("1.5h"), Str("-2m"), Str("7us"),
       Str("3d"), Str(".s"),
       MapVal(FieldG :> Str("v1")), MapVal((FieldF :> Number("42")) @@ (FieldG :> BoolVal(TRUE))),
       SliceVal(<<Str("v1"), Str("v2")>>), SliceVal(<<Number("42"), NoRaw>>), SliceVal(<<>>) }

\* a document holding one raw value under field f
DocOf(raw) == (FieldF :> raw)

\* the whole document and its field
ValuePaths == {KeyA, WithField(KeyA, FieldF)}

Methods == {"Data", "Bool", "Float64", "Int64", "Int", "Map", "StringSlice", "Duration"}

\* the accessor called on a Value
Apply(method, v) ==
    CASE method = "Data" -> Data(v)
      [] method = "Bool" -> Bool(v)
      [] method = "Float64" -> Float64(v)
      [] method = "Int64" -> Int64(v)
      [] method = "Int" -> IntOf(v)
      [] method = "Map" -> Map(v)
      [] method = "StringSlice" -> StringSlice(v)
      [] method = "Duration" -> Duration(v)

\* the caller calls an accessor on the Value its Get returned
Accessor(p, method) ==
    /\ call[p].pc = "done"
    /\ ~call[p].v.nil
    /\ acc' = [method |-> method, field |-> call[p].field, raw |-> call[p].v.val,
               text |-> String(call[p].v), out |-> Apply(method, call[p].v)]
    /\ UNCHANGED <<envOverride, env, ttl, given, store, cache, now, call, loads,
                   god, closed, sweeper, stops, released, closing, watch, cancel>>

----------------------------------------------------------------------------
(* GetOrDefault *)

Fallbacks == {"foo", ""}

NoGod ==
    [pc |-> "none", path |-> <<>>, fallback |-> "", get |-> Idle,
     v |-> NilValue, ok |-> FALSE]

\* GetOrDefault always reports the value as coming from Vault
GetOrDefaultAlwaysOk(v, err, fallback) ==
    IF ~err.nil
    THEN [v |-> NewValue(Str(fallback)), ok |-> TRUE]
    ELSE [v |-> v, ok |-> TRUE]

\* if err != nil { return &value{val: fallback}, false }; return v, true
GetOrDefaultResult(v, err, fallback) ==
    IF ~err.nil
    THEN [v |-> NewValue(Str(fallback)), ok |-> FALSE]
    ELSE [v |-> v, ok |-> TRUE]

\* a caller enters GetOrDefault(ctx, path, fallback)
GetOrDefault(p, path, fallback) ==
    /\ god[p].pc = "none"
    /\ call[p].pc = "idle"
    /\ god' = [god EXCEPT ![p] = [NoGod EXCEPT !.pc = "get", !.path = path,
                                               !.fallback = fallback]]
    /\ UNCHANGED <<envOverride, env, ttl, given, store, cache, now, call, loads,
                   closed, sweeper, stops, released, closing, watch, cancel, acc>>

\* v, err := c.Get(ctx, path)
GetOrDefaultGet(p) ==
    /\ god[p].pc = "get"
    /\ Get(p, god[p].path)

\* Get has returned: the fallback or the value
GetOrDefaultReturn(p) ==
    /\ god[p].pc = "get"
    /\ call[p].pc = "done"
    /\ LET r == GetOrDefaultResult(call[p].v, call[p].err, god[p].fallback)
       IN  god' = [god EXCEPT ![p].pc = "returned", ![p].get = call[p],
                              ![p].v = r.v, ![p].ok = r.ok]
    /\ call' = [call EXCEPT ![p] = Idle]
    /\ UNCHANGED <<envOverride, env, ttl, given, store, cache, now, loads,
                   closed, sweeper, stops, released, closing, watch, cancel, acc>>

\* the caller takes the result
GetOrDefaultTaken(p) ==
    /\ god[p].pc = "returned"
    /\ god' = [god EXCEPT ![p] = NoGod]
    /\ UNCHANGED <<envOverride, env, ttl, given, store, cache, now, call, loads,
                   closed, sweeper, stops, released, closing, watch, cancel, acc>>

----------------------------------------------------------------------------
(* Close *)

ShouldCloseAlways(flag) == TRUE

\* if !c.closed
ShouldClose(flag) == ~flag

\* a caller enters Close and reads c.closed (no lock is taken)
CloseCall(p) ==
    /\ closing[p] = "none"
    /\ call[p].pc = "idle"
    /\ closing' = [closing EXCEPT ![p] = IF ShouldClose(closed) THEN "stop" ELSE "noop"]
    /\ UNCHANGED <<envOverride, env, ttl, given, store, cache, now, call, loads,
                   god, closed, sweeper, stops, released, watch, cancel, acc>>

\* c.cache.Stop(): a send on the unbuffered stop channel, received only by
\* the running expiration loop, which then exits
CloseStop(p) ==
    /\ closing[p] = "stop"
    /\ sweeper = "running"
    /\ sweeper' = "stopped"
    /\ stops' = stops + 1
    /\ closing' = [closing EXCEPT ![p] = "release"]
    /\ UNCHANGED <<envOverride, env, ttl, given, store, cache, now, call, loads,
                   god, closed, released, watch, cancel, acc>>

\* c.client.Close()
CloseRelease(p) ==
    /\ closing[p] = "release"
    /\ released' = released + 1
    /\ closing' = [closing EXCEPT ![p] = "flag"]
    /\ UNCHANGED <<envOverride, env, ttl, given, store, cache, now, call, loads,
                   god, closed, sweeper, stops, watch, cancel, acc>>

\* c.closed = true
CloseFlag(p) ==
    /\ closing[p] = "flag"
    /\ closed' = TRUE
    /\ closing' = [closing EXCEPT ![p] = "returned"]
    /\ UNCHANGED <<envOverride, env, ttl, given, store, cache, now, call, loads,
                   god, sweeper, stops, released, watch, cancel, acc>>

\* Close has returned to the caller
CloseReturn(p) ==
    /\ closing[p] \in {"returned", "noop"}
    /\ closing' = [closing EXCEPT ![p] = "none"]
    /\ UNCHANGED <<envOverride, env, ttl, given, store, cache, now, call, loads,
                   god, closed, sweeper, stops, released, watch, cancel, acc>>

----------------------------------------------------------------------------
(* Watch *)

MaxWatchTime == 7

\* the margin added to the TTL between polls (time.Second), in ticks
PollMargin == 1

\* c.ttl + time.Second
PollInterval == ttl + PollMargin

\* the polling goroutine of the registration makes its Get calls as g1
Watcher == "g1"

WatchPaths == {WithField(KeyA, FieldF)}

NoWatch ==
    [pc |-> "none", path |-> <<>>, old |-> NilValue, new |-> NilValue, timerAt |-> 0,
     initErr |-> FALSE, compared |-> FALSE, firstOld |-> NilValue,
     requested |-> FALSE, fired |-> 0, mutAt |-> -1, told |-> FALSE,
     fetched |-> NilValue, active |-> 0, atCall |-> NilValue, seed |-> NilValue,
     lastPoll |-> "none", again |-> FALSE]

\* the comparator of the test: oldVal.String() != newVal.String()
comparator(oldval, newval) == String(oldval) # String(newval)

BaselineOfGet(v, err) == v

\* oldValue, err := c.Get(...); if err != nil { oldValue = &value{val: ""} }
Baseline(v, err) == IF ~err.nil THEN NewValue(Str("")) ELSE v

\* a baseline that stays what the initial Get made it
BaselineKept(oldval, newval, differs) == oldval

\* oldValue = newValue, whatever the comparator said
NextBaseline(oldval, newval, differs) == newval

\* the store is reachable no more
Sealed == [ok |-> FALSE, data |-> EmptyDoc, err |-> "vault is sealed"]

\* an error of the poll's Get that ends the loop
AfterFailedPollStop == "cancelled"

\* if err != nil { break }: out of the select, on to the next iteration
AfterFailedPoll == "select"

\* a callback started with "go callback(newValue)": the loop goes on
CallbackSpawned == "select"

\* callback(newValue) runs in the polling goroutine
CallbackRuns == "callback"

TimerAlwaysDue(at, t) == TRUE

\* the channel of time.After has the tick
TimerDue(at, t) == t >= at

\* a plain break in the stop case would leave the select, not the loop
AfterStopInLoop == "select"

\* case <-stopChan: break OuterLoop
AfterStop == "cancelled"

StopNeverReady(c) == FALSE

\* a sender waits on stopChan
StopReady(c) == \E p \in Procs : c[p] = "sending"

\* what the store holds for the path of a finished call
Stored(c) ==
    IF store[c.key].ok THEN Project(store[c.key].data, c.field, c.key).v ELSE NilValue

\* Watch(path, comparator, callback): start the goroutine, return the handle
Watch(path) ==
    /\ watch.pc = "none"
    /\ watch' = [NoWatch EXCEPT
                    !.pc = "initial", !.path = path,
                    !.atCall = LET tp == TrimPrefix(path, SecretPrefix)
                               IN  Baseline(Stored([key |-> DocumentKey(tp),
                                                    field |-> FieldName(tp)]),
                                            IF Stored([key |-> DocumentKey(tp),
                                                       field |-> FieldName(tp)]).nil
                                            THEN ErrNoValue ELSE NoError)]
    /\ UNCHANGED <<envOverride, env, ttl, given, store, cache, now, call, loads,
                   god, closed, sweeper, stops, released, closing, cancel, acc>>

\* the goroutine calls c.Get(context.Background(), path)
WatchGet ==
    /\ watch.pc \in {"initial", "poll"}
    /\ Get(Watcher, watch.path)

\* the initial Get has returned: the baseline, then the first select
WatchInitial ==
    /\ watch.pc = "initial"
    /\ call[Watcher].pc = "done"
    /\ watch' = [watch EXCEPT !.pc = "select",
                              !.old = Baseline(call[Watcher].v, call[Watcher].err),
                              !.seed = Baseline(call[Watcher].v, call[Watcher].err),
                              !.fetched = Baseline(call[Watcher].v, call[Watcher].err),
                              !.initErr = ~call[Watcher].err.nil,
                              !.timerAt = now + PollInterval]
    /\ call' = [call EXCEPT ![Watcher] = Idle]
    /\ UNCHANGED <<envOverride, env, ttl, given, store, cache, now, loads,
                   god, closed, sweeper, stops, released, closing, cancel, acc>>

\* select: case <-time.After(c.ttl + time.Second)
WatchTimer ==
    /\ watch.pc = "select"
    /\ TimerDue(watch.timerAt, now)
    /\ watch' = [watch EXCEPT !.pc = "poll"]
    /\ UNCHANGED <<envOverride, env, ttl, given, store, cache, now, call, loads,
                   god, closed, sweeper, stops, released, closing, cancel, acc>>

\* select: case <-stopChan: break OuterLoop; the sender's send completes
WatchStop ==
    /\ watch.pc = "select"
    /\ StopReady(cancel)
    /\ \E p \in Procs :
          /\ cancel[p] = "sending"
          /\ cancel' = [cancel EXCEPT ![p] = "returned"]
    /\ watch' = [watch EXCEPT !.pc = AfterStop]
    /\ UNCHANGED <<envOverride, env, ttl, given, store, cache, now, call, loads,
                   god, closed, sweeper, stops, released, closing, acc>>

\* the poll's Get has returned: on an error back to select; else the
\* comparator, the callback if it reports a difference, oldValue = newValue
WatchPolled ==
    /\ watch.pc = "poll"
    /\ call[Watcher].pc = "done"
    /\ LET c == call[Watcher]
       IN  IF ~c.err.nil
           THEN watch' = [watch EXCEPT !.pc = AfterFailedPoll, !.lastPoll = "failed",
                                       !.timerAt = now + PollInterval]
           ELSE LET seen == [watch EXCEPT
                                !.compared = TRUE,
                                !.firstOld = IF watch.compared THEN @ ELSE watch.old,
                                !.fetched = c.v,
                                !.lastPoll = IF comparator(watch.old, c.v)
                                             THEN "changed" ELSE "same"]
                IN  IF comparator(watch.old, c.v)
                    THEN watch' = [seen EXCEPT
                                      !.pc = CallbackRuns,
                                      !.new = c.v,
                                      !.active = @ + 1,
                                      !.fired = IF watch.requested THEN @ + 1 ELSE @,
                                      !.told = @ \/ c.v = Stored(c)]
                    ELSE watch' = [seen EXCEPT
                                      !.pc = "select",
                                      !.old = NextBaseline(watch.old, c.v, FALSE),
                                      !.timerAt = now + PollInterval]
    /\ call' = [call EXCEPT ![Watcher] = Idle]
    /\ UNCHANGED <<envOverride, env, ttl, given, store, cache, now, loads,
                   god, closed, sweeper, stops, released, closing, cancel, acc>>

\* callback(newValue) has returned: oldValue = newValue, the next select
WatchCallbackReturn ==
    /\ watch.pc = "callback"
    /\ cancel[Watcher] # "sending"
    /\ watch' = [watch EXCEPT !.pc = "select",
                              !.old = NextBaseline(watch.old, watch.new, TRUE),
                              !.active = @ - 1,
                              !.timerAt = now + PollInterval]
    /\ UNCHANGED <<envOverride, env, ttl, given, store, cache, now, call, loads,
                   god, closed, sweeper, stops, released, closing, cancel, acc>>

\* a caller invokes the cancel handle: stopChan <- struct{}{}
Cancel(p) ==
    /\ watch.pc # "none"
    /\ cancel[p] = "none"
    /\ call[p].pc = "idle"
    /\ cancel' = [cancel EXCEPT ![p] = "sending"]
    /\ watch' = [watch EXCEPT !.requested = TRUE]
    /\ UNCHANGED <<envOverride, env, ttl, given, store, cache, now, call, loads,
                   god, closed, sweeper, stops, released, closing, acc>>

\* the cancel handle has returned to its caller, who does not call it again
CancelReturn(p) ==
    /\ cancel[p] = "returned"
    /\ cancel' = [cancel EXCEPT ![p] = "done"]
    /\ UNCHANGED <<envOverride, env, ttl, given, store, cache, now, call, loads,
                   god, closed, sweeper, stops, released, closing, watch, acc>>

\* the caller invokes the cancel handle once more after it has returned:
\* stopChan <- struct{}{} again
CancelAgain(p) ==
    /\ cancel[p] = "done"
    /\ call[p].pc = "idle"
    /\ cancel' = [cancel EXCEPT ![p] = "sending"]
    /\ watch' = [watch EXCEPT !.again = TRUE]
    /\ UNCHANGED <<envOverride, env, ttl, given, store, cache, now, call, loads,
                   god, closed, sweeper, stops, released, closing, acc>>

\* the callback invokes the cancel handle of its own registration: the
\* polling goroutine itself sends on stopChan
CallbackCancel ==
    /\ watch.pc = "callback"
    /\ cancel[Watcher] = "none"
    /\ cancel' = [cancel EXCEPT ![Watcher] = "sending"]
    /\ watch' = [watch EXCEPT !.requested = TRUE]
    /\ UNCHANGED <<envOverride, env, ttl, given, store, cache, now, call, loads,
                   god, closed, sweeper, stops, released, closing, acc>>

\* the document appears in the store, or its field f is changed
Put ==
    /\ \/ store[KeyA] = NotFound /\ store' = [store EXCEPT ![KeyA] = Found(Doc2)]
       \/ store[KeyA] = Found(Doc2) /\ store' = [store EXCEPT ![KeyA] = Found(Doc1)]
    /\ watch' = IF watch.pc = "none" THEN watch
                ELSE [watch EXCEPT !.mutAt = now, !.told = FALSE]
    /\ UNCHANGED <<envOverride, env, ttl, given, cache, now, call, loads,
                   god, closed, sweeper, stops, released, closing, cancel, acc>>

\* the store stops answering: no change is left to be reported
Outage ==
    /\ store[KeyA] = Found(Doc1)
    /\ store' = [store EXCEPT ![KeyA] = Sealed]
    /\ watch' = [watch EXCEPT !.mutAt = -1]
    /\ UNCHANGED <<envOverride, env, ttl, given, cache, now, call, loads,
                   god, closed, sweeper, stops, released, closing, cancel, acc>>

\* the polling goroutine has something to do now
WatcherRuns ==
    \/ watch.pc \in {"initial", "poll"}
    \/ watch.pc = "callback" /\ cancel[Watcher] # "sending"
    \/ watch.pc = "select" /\ (TimerDue(watch.timerAt, now) \/ StopReady(cancel))

\* time passes while the polling goroutine waits in select
WatchTick ==
    /\ now < MaxWatchTime
    /\ ~WatcherRuns
    /\ now' = now + 1
    /\ UNCHANGED <<ext, envOverride, env, ttl, given, store, cache, call, loads>>

----------------------------------------------------------------------------
(* Specifications *)

NoAcc == [method |-> "none", field |-> <<>>, raw |-> NoRaw, text |-> <<>>,
          out |-> [val |-> FALSE, ok |-> FALSE]]

\* the client after new(): nothing is in progress, the expiration loop runs
InitExt ==
    /\ god = [p \in Procs |-> NoGod]
    /\ closed = FALSE
    /\ sweeper = "running"
    /\ stops = 0
    /\ released = 0
    /\ closing = [p \in Procs |-> "none"]
    /\ watch = NoWatch
    /\ cancel = [p \in Procs |-> "none"]
    /\ acc = NoAcc

InitState ==
    /\ InitExt
    /\ store \in {[k \in Keys |-> IF k = KeySecretA THEN Found(Doc3) ELSE w] :
                     w \in {Found(Doc2), NotFound}}
    /\ cache = [k \in {} |-> 0]
    /\ now = 0
    /\ call = [p \in Procs |-> Idle]
    /\ loads = [k \in Keys |-> [at |-> -1, seen |-> FALSE, doc |-> EmptyDoc]]

\* concurrent callers on a few paths
Init ==
    /\ envOverride \in BOOLEAN
    /\ env = ConcEnv
    /\ given = cacheTTL
    /\ new(cacheTTL)
    /\ InitState

Next ==
    \/ \E p \in Procs, path \in ConcPaths : Get(p, path)
    \/ \E p \in Procs : Fetch(p)
    \/ \E p \in Procs : Load(p)
    \/ \E p \in Procs : Return(p)
    \/ Sweep
    \/ \E w \in StoreChoices(KeyA) : StoreWrite(KeyA, w)
    \/ Tick

Spec == Init /\ [][Next]_vars

\* one caller on every path and environment
InitPaths ==
    /\ envOverride \in BOOLEAN
    /\ env \in AllEnvs
    /\ given = cacheTTL
    /\ new(cacheTTL)
    /\ InitState

NextPaths ==
    \/ \E path \in AllPaths : Get("g1", path)
    \/ Fetch("g1")
    \/ Load("g1")
    \/ Return("g1")
    \/ \E k \in Keys : \E w \in StoreChoices(k) : StoreWrite(k, w)

SpecPaths == InitPaths /\ [][NextPaths]_vars

\* one caller of GetOrDefault
InitDefault ==
    /\ envOverride \in BOOLEAN
    /\ env = ConcEnv
    /\ given = cacheTTL
    /\ new(cacheTTL)
    /\ InitState

NextDefault ==
    \/ \E path \in ConcPaths, fallback \in Fallbacks : GetOrDefault("g1", path, fallback)
    \/ GetOrDefaultGet("g1")
    \/ Fetch("g1")
    \/ Load("g1")
    \/ GetOrDefaultReturn("g1")
    \/ GetOrDefaultTaken("g1")
    \/ \E w \in StoreChoices(KeyA) : StoreWrite(KeyA, w)

SpecDefault == InitDefault /\ [][NextDefault]_vars

\* the store holds a document with a field of some type
InitValue ==
    /\ envOverride = FALSE
    /\ env = NoEnv
    /\ given = cacheTTL
    /\ new(cacheTTL)
    /\ InitExt
    /\ store \in {[k \in Keys |-> IF k = KeyA THEN Found(DocOf(raw)) ELSE NotFound] :
                     raw \in RawValues}
    /\ cache = [k \in {} |-> 0]
    /\ now = 0
    /\ call = [p \in Procs |-> Idle]
    /\ loads = [k \in Keys |-> [at |-> -1, seen |-> FALSE, doc |-> EmptyDoc]]

\* one caller reads the document or a field and calls accessors on the Value
NextValue ==
    \/ \E path \in ValuePaths : Get("g1", path)
    \/ Fetch("g1")
    \/ Load("g1")
    \/ \E method \in Methods : Accessor("g1", method)
    \/ Return("g1")

SpecValue == InitValue /\ [][NextValue]_vars

\* a client built by New with any cacheTTL
InitNew ==
    /\ envOverride = FALSE
    /\ env = NoEnv
    /\ \E d \in TTLInputs : given = d /\ New(d)
    /\ InitState

\* the client in use: one caller, the store changing, time passing
NextNew ==
    \/ \E path \in ConcPaths : Get("g1", path)
    \/ Fetch("g1")
    \/ Load("g1")
    \/ Return("g1")
    \/ \E w \in StoreChoices(KeyA) : StoreWrite(KeyA, w)
    \/ Tick

SpecNew == InitNew /\ [][NextNew]_vars

\* the client of the watch test: no override
InitWatch ==
    /\ envOverride = FALSE
    /\ env = NoEnv
    /\ given = cacheTTL
    /\ new(cacheTTL)
    /\ InitState

\* one registration polled by its goroutine, a second goroutine that calls
\* Get and cancels, the document changing in the store, time passing
NextWatch ==
    \/ \E path \in WatchPaths : Watch(path)
    \/ WatchGet
    \/ \E p \in Procs : Fetch(p)
    \/ \E p \in Procs : Load(p)
    \/ WatchInitial
    \/ WatchTimer
    \/ WatchStop
    \/ WatchPolled
    \/ WatchCallbackReturn
    \/ Cancel("g2")
    \/ CancelReturn("g2")
    \/ \E path \in WatchPaths : cancel["g2"] # "sending" /\ Get("g2", path)
    \/ Return("g2")
    \/ Put
    \/ Outage
    \/ Sweep
    \/ WatchTick

SpecWatch == InitWatch /\ [][NextWatch]_vars

\* the registration and its canceller alone
NextCancel ==
    \/ \E path \in WatchPaths : Watch(path)
    \/ WatchGet
    \/ Fetch(Watcher)
    \/ Load(Watcher)
    \/ WatchInitial
    \/ WatchTimer
    \/ WatchStop
    \/ WatchPolled
    \/ WatchCallbackReturn
    \/ Cancel("g2")
    \/ CancelReturn("g2")
    \/ Put
    \/ Outage
    \/ WatchTick

\* the steps of the polling goroutine
WatcherStep ==
    \/ WatchGet
    \/ Fetch(Watcher)
    \/ Load(Watcher)
    \/ WatchInitial
    \/ WatchTimer
    \/ WatchPolled
    \/ WatchCallbackReturn

\* the polling goroutine keeps running, every Get and callback returns, and
\* select takes a case that is ready again and again
SpecCancel ==
    /\ InitWatch
    /\ [][NextCancel]_vars
    /\ WF_vars(WatcherStep)
    /\ SF_vars(WatchStop)

\* the canceller may invoke the handle again after it has returned
NextCancelTwice ==
    \/ NextCancel
    \/ CancelAgain("g2")

SpecCancelTwice ==
    /\ InitWatch
    /\ [][NextCancelTwice]_vars
    /\ WF_vars(WatcherStep)
    /\ SF_vars(WatchStop)

\* the callback may invoke the handle of its own registration
NextOneShot ==
    \/ NextCancel
    \/ CallbackCancel

SpecOneShot ==
    /\ InitWatch
    /\ [][NextOneShot]_vars
    /\ WF_vars(WatcherStep)
    /\ SF_vars(WatchStop)

\* a registration that is never cancelled, and the owner g2 who closes the
\* client after registering
NextCloseWatch ==
    \/ \E path \in WatchPaths : ~closed /\ closing["g2"] = "none" /\ Watch(path)
    \/ WatchGet
    \/ Fetch(Watcher)
    \/ Load(Watcher)
    \/ WatchInitial
    \/ WatchTimer
    \/ WatchPolled
    \/ WatchCallbackReturn
    \/ Put
    \/ CloseCall("g2")
    \/ CloseStop("g2")
    \/ CloseRelease("g2")
    \/ CloseFlag("g2")
    \/ CloseReturn("g2")
    \/ WatchTick

SpecCloseWatch == InitWatch /\ [][NextCloseWatch]_vars

\* the client without override, for the lifecycle runs
InitClose ==
    /\ envOverride = FALSE
    /\ env = NoEnv
    /\ given = cacheTTL
    /\ new(cacheTTL)
    /\ InitState

\* g1 alone calls Close, again and again; g2 keeps calling Get
NextClose ==
    \/ CloseCall("g1")
    \/ CloseStop("g1")
    \/ CloseRelease("g1")
    \/ CloseFlag("g1")
    \/ CloseReturn("g1")
    \/ \E path \in ConcPaths : Get("g2", path)
    \/ Fetch("g2")
    \/ Load("g2")
    \/ Return("g2")
    \/ Sweep
    \/ Tick

SpecClose == InitClose /\ [][NextClose]_vars

\* every caller may call Close or Get
NextCloseConc ==
    \/ \E p \in Procs : CloseCall(p)
    \/ \E p \in Procs : CloseStop(p)
    \/ \E p \in Procs : CloseRelease(p)
    \/ \E p \in Procs : CloseFlag(p)
    \/ \E p \in Procs : CloseReturn(p)
    \/ \E p \in Procs : closing[p] = "none" /\ Get(p, KeyA)
    \/ \E p \in Procs : Fetch(p)
    \/ \E p \in Procs : Load(p)
    \/ \E p \in Procs : Return(p)
    \/ Sweep
    \/ Tick

SpecCloseConc == InitClose /\ [][NextCloseConc]_vars

----------------------------------------------------------------------------
(* Properties *)

\* a call that reached the cache (the override did not answer it)
Looked(p) == call[p].pc # "idle" /\ call[p].from # "env"

\* C1: callers that are loading the same document key at the same time have
\* invoked the store fetch at most once between them (single flight).
C1_SingleFlight ==
    \A p, q \in Procs :
        (p # q /\ Loading(p) /\ Loading(q) /\ call[p].key = call[q].key)
            => call[p].fetches + call[q].fetches <= 1

\* C2: the first Get that looks a key up after it was loaded fetches nothing
\* when less than the TTL has passed since the load, and fetches exactly
\* once when more than the TTL has passed.
C2_TTLProperty ==
    \A p \in Procs :
        (call[p].pc = "done" /\ call[p].from # "env" /\ call[p].first /\ call[p].age >= 0)
            => /\ (call[p].age < cacheTTL => call[p].fetches = 0 /\ call[p].from = "cache")
               /\ (call[p].age > cacheTTL => call[p].fetches = 1 /\ call[p].from = "store")

\* a Get issued after the TTL of the last load has elapsed went to the store
C2_Witness ==
    \E p \in Procs :
        /\ call[p].pc = "done"
        /\ call[p].first
        /\ call[p].age > cacheTTL
        /\ call[p].fetches = 1
        /\ call[p].item

\* C3: a Get answered from the cache returns a document that was loaded
\* from the store at most TTL before the Get, however often it was hit.
C3_Freshness ==
    \A p \in Procs :
        (call[p].pc = "done" /\ call[p].from = "cache") => call[p].age <= cacheTTL

\* C4: a Get that reaches the cache within the TTL of the last load of its
\* document key is answered at once from that loaded document, whatever its
\* field: no fetch, and the projection of its field (the field-not-found
\* error when the field is absent).
C4_PerDocument ==
    [][\A p \in Procs :
          LET c == call'[p]
              k == c.key
          IN  (/\ call[p].pc = "idle" /\ c.pc # "idle" /\ c.from # "env"
               /\ loads[k].at >= 0
               /\ now - loads[k].at <= cacheTTL)
                  => /\ c.pc = "done"
                     /\ c.from = "cache"
                     /\ c.fetches = 0
                     /\ c.doc = loads[k].doc
                     /\ IF c.field = <<>>
                        THEN c.v = NewValue(MapVal(loads[k].doc)) /\ c.err.nil
                        ELSE IF c.field \in DOMAIN loads[k].doc
                        THEN c.v = NewValue(loads[k].doc[c.field]) /\ c.err.nil
                        ELSE c.v.nil /\ c.err = ErrField(c.field, k)
      ]_vars

\* one caller loaded the document through field f, the other then asked for
\* the absent field g and was answered from the cache
C4_Witness ==
    \E p, q \in Procs :
        /\ call[q].pc = "done" /\ call[q].from = "store" /\ call[q].item
        /\ call[q].field = FieldF
        /\ call[p].pc = "done" /\ call[p].from = "cache"
        /\ call[p].key = call[q].key
        /\ call[p].field = FieldG
        /\ call[p].fetches = 0
        /\ call[p].err = ErrField(FieldG, KeyA)

\* C5: with envOverride set and a non-empty value under the derived
\* variable, Get returns that string with a nil error at once, fetches
\* nothing and leaves cache and store alone.
C5_OverrideWins ==
    [][\A p \in Procs :
          LET c == call'[p]
          IN  (/\ call[p].pc = "idle" /\ c.pc # "idle"
               /\ envOverride
               /\ Getenv(c.envKey) # "")
                  => /\ c.pc = "done"
                     /\ c.v = NewValue(Str(Getenv(c.envKey)))
                     /\ c.err = NoError
                     /\ c.fetches = 0
                     /\ cache' = cache
                     /\ store' = store
      ]_vars

\* the override answered while the document could not be loaded
C5_Witness ==
    \E p \in Procs :
        /\ call[p].pc = "done"
        /\ call[p].from = "env"
        /\ call[p].raw = WithField(KeyA, FieldF)
        /\ call[p].v = NewValue(Str("ov"))
        /\ ~store[KeyA].ok
        /\ KeyA \notin DOMAIN cache

\* C6: when the override does not answer (the flag is off, or the derived
\* variable is unset or empty), Get is the store-backed lookup: the result
\* is the projection of the document obtained from cache or store, or the
\* load's error, whatever the environment holds.
C6_FallThrough ==
    \A p \in Procs :
        LET c == call[p]
        IN  (c.pc = "done" /\ ~(envOverride /\ Getenv(c.envKey) # ""))
                => /\ c.from \in {"cache", "store", "shared"}
                   /\ c.key = DocumentKey(TrimPrefix(c.raw, SecretPrefix))
                   /\ IF c.item
                      THEN [v |-> c.v, err |-> c.err] = Project(c.doc, c.field, c.key)
                      ELSE c.v.nil /\ ~c.err.nil /\ c.fetches = 1

\* the flag is off, the variable of the path is set, the store answered
C6_Witness ==
    \E p \in Procs :
        /\ ~envOverride
        /\ Getenv(EnvAF) = "ov"
        /\ call[p].pc = "done"
        /\ call[p].raw = WithField(KeyA, FieldF)
        /\ call[p].from = "store"
        /\ call[p].v = NewValue(Str("v2"))

\* a string upper-cased with every '/' and '#' replaced by '_'
UpperUnderscore(s) ==
    [i \in 1..Len(s) |-> IF s[i] \in {"/", "#"} THEN "_" ELSE UpperChar(s[i])]

\* s without one leading "secret/"
StrippedOnce(s) ==
    IF Len(s) >= Len(SecretPrefix) /\ \A i \in 1..Len(SecretPrefix) : s[i] = SecretPrefix[i]
    THEN [i \in 1..(Len(s) - Len(SecretPrefix)) |-> s[i + Len(SecretPrefix)]]
    ELSE s

\* C7 (as claimed): the variable consulted is the path passed to Get,
\* upper-cased with every '/' and '#' replaced by '_'.
C7_EnvKeyOfRawPath ==
    \A p \in Procs :
        (call[p].pc # "idle" /\ envOverride)
            => call[p].envKey = UpperUnderscore(call[p].raw)

\* C7 (amended): the variable consulted is the path with one leading
\* "secret/" stripped, not yet split, upper-cased with every '/' and '#'
\* replaced by '_'.
C7_EnvKeyOfStrippedPath ==
    \A p \in Procs :
        (call[p].pc # "idle" /\ envOverride)
            => call[p].envKey = UpperUnderscore(StrippedOnce(call[p].raw))

\* Get("secret/a#f") consulted A_F and was answered by it
C7_Witness ==
    \E p \in Procs :
        /\ envOverride
        /\ call[p].pc = "done"
        /\ call[p].raw = SecretPrefix \o WithField(KeyA, FieldF)
        /\ call[p].envKey = EnvAF
        /\ call[p].from = "env"
        /\ call[p].v = NewValue(Str("ov"))

\* the first '#' of s is at position i
FirstHashAt(s, i) == s[i] = "#" /\ \A j \in 1..(i - 1) : s[j] # "#"

NoHash(s) == \A i \in 1..Len(s) : s[i] # "#"

\* C8 (as claimed): a path with no '#' has an empty field name and yields
\* the whole document; a path X#Y, split at its first '#', fetches key X
\* and projects field Y.
C8_SplitOfPath ==
    \A p \in Procs :
        LET c == call[p]
        IN  (c.pc = "done" /\ c.item)
                => /\ NoHash(c.raw) => c.field = <<>> /\ c.v = NewValue(MapVal(c.doc))
                   /\ \A i \in 1..Len(c.raw) :
                        FirstHashAt(c.raw, i)
                            => LET X == SubSeq(c.raw, 1, i - 1)
                                   Y == SubSeq(c.raw, i + 1, Len(c.raw))
                               IN  /\ c.key = X
                                   /\ c.field = Y
                                   /\ IF Y \in DOMAIN c.doc
                                      THEN c.v = NewValue(c.doc[Y])
                                      ELSE c.v.nil /\ c.err = ErrField(Y, X)

\* C8 (amended): with s the path after one leading "secret/" is stripped,
\* and when the override does not answer: s with no '#' has an empty field
\* name and yields the whole document of key s; s = X#Y, split at its first
\* '#', addresses key X and field Y, and yields the projection of Y when Y
\* is not empty and the whole document of X when Y is empty.
C8_SplitOfStrippedPath ==
    \A p \in Procs :
        LET c == call[p]
            s == StrippedOnce(c.raw)
        IN  Looked(p)
                => /\ NoHash(s) =>
                        /\ c.key = s
                        /\ c.field = <<>>
                        /\ (c.pc = "done" /\ c.item) => c.v = NewValue(MapVal(c.doc))
                   /\ \A i \in 1..Len(s) :
                        FirstHashAt(s, i)
                            => LET X == SubSeq(s, 1, i - 1)
                                   Y == SubSeq(s, i + 1, Len(s))
                               IN  /\ c.key = X
                                   /\ c.field = Y
                                   /\ (c.pc = "done" /\ c.item) =>
                                         IF Y = <<>>
                                         THEN c.v = NewValue(MapVal(c.doc))
                                         ELSE IF Y \in DOMAIN c.doc
                                         THEN c.v = NewValue(c.doc[Y])
                                         ELSE c.v.nil /\ c.err = ErrField(Y, X)

\* Get("a#f#g") obtained document a and returned its field "f#g"
C8_Witness ==
    \E p \in Procs :
        /\ call[p].pc = "done"
        /\ call[p].raw = WithField(KeyA, FieldFG)
        /\ call[p].key = KeyA
        /\ call[p].field = FieldFG
        /\ call[p].item
        /\ call[p].v = NewValue(Str("w1"))

\* C9 (as claimed): for every path q, Get("secret/" + q) addresses the
\* document key and the field that Get(q) addresses.
C9_PrefixOfAnyPath ==
    \A p \in Procs :
        LET c == call[p]
            q == SubSeq(c.raw, Len(SecretPrefix) + 1, Len(c.raw))
        IN  (Looked(p) /\ HasPrefix(c.raw, SecretPrefix))
                => /\ c.key = DocumentKey(TrimPrefix(q, SecretPrefix))
                   /\ c.field = FieldName(TrimPrefix(q, SecretPrefix))

\* C9 (amended): for every path q that does not itself start with
\* "secret/", Get("secret/" + q) addresses the key and the field of Get(q),
\* that is the cache entry of q's key, consults q's variable and returns the
\* projection Get(q) returns of the same document; a path is stripped of
\* one leading "secret/" and of nothing else.
C9_PrefixStripping ==
    \A p \in Procs :
        LET c == call[p]
            q == StrippedOnce(c.raw)
        IN  /\ (c.pc # "idle" /\ envOverride) => c.envKey = EnvKey(q)
            /\ Looked(p)
                => /\ c.key = DocumentKey(q)
                   /\ c.field = FieldName(q)
                   /\ (c.pc = "done" /\ c.from = "cache") => c.doc = loads[DocumentKey(q)].doc
                   /\ (c.pc = "done" /\ c.item)
                        => [v |-> c.v, err |-> c.err]
                               = Project(c.doc, FieldName(q), DocumentKey(q))

\* Get("secret/a#f") was answered from the cache entry of key a
C9_Witness ==
    \E p \in Procs :
        /\ call[p].pc = "done"
        /\ call[p].raw = SecretPrefix \o WithField(KeyA, FieldF)
        /\ call[p].from = "cache"
        /\ call[p].key = KeyA
        /\ call[p].field = FieldF
        /\ call[p].doc = cache[KeyA].value
        /\ ~call[p].v.nil

\* C10: of an obtained document, an empty field name yields the whole map,
\* a present field its raw value, an absent field a nil Value and an error
\* naming field and key; and every Get returns exactly one of Value and
\* error.
C10_FieldProjection ==
    \A p \in Procs :
        LET c == call[p]
        IN  c.pc = "done"
                => /\ c.v.nil # c.err.nil
                   /\ c.item
                        => IF c.field = <<>>
                           THEN c.v = NewValue(MapVal(c.doc)) /\ c.err.nil
                           ELSE IF c.field \in DOMAIN c.doc
                           THEN c.v = NewValue(c.doc[c.field]) /\ c.err.nil
                           ELSE /\ c.v = NilValue
                                /\ c.err.msg = "field was not found"
                                /\ c.err.field = c.field
                                /\ c.err.path = c.key

\* the document was obtained and the field asked for is not in it
C10_Witness ==
    \E p \in Procs :
        /\ call[p].pc = "done"
        /\ call[p].item
        /\ call[p].doc = Doc2
        /\ call[p].field = FieldG
        /\ call[p].v.nil
        /\ call[p].err = ErrField(FieldG, KeyA)

----------------------------------------------------------------------------
(* C11 .. C14: load failure, GetOrDefault, Close *)

\* C11: when the store fetch for the document key fails, Get returns a nil
\* Value and the store-access error wrapping the fetch's own error, and the
\* fetch was invoked exactly once within that Get call.
C11_LoadFailure ==
    \A p \in Procs :
        LET c == call[p]
        IN  (c.pc = "done" /\ c.fetches >= 1 /\ ~c.resp.ok)
                => /\ c.v = NilValue
                   /\ ~c.err.nil
                   /\ c.err.msg = "could not get secret from Vault"
                   /\ c.err.cause = c.resp.err
                   /\ c.err.cause = "secret not found"
                   /\ c.fetches = 1

\* a Get whose fetch failed has returned
C11_Witness ==
    \E p \in Procs :
        /\ call[p].pc = "done"
        /\ call[p].from = "store"
        /\ call[p].fetches = 1
        /\ ~call[p].resp.ok
        /\ call[p].err = ErrVault("secret not found")

\* the Get inside a GetOrDefault call failed: its load failed, or the
\* document was obtained and does not hold the field asked for
GetFailed(c) ==
    \/ c.from \in {"store", "shared"} /\ ~c.item
    \/ c.item /\ c.field # <<>> /\ c.field \notin DOMAIN c.doc

\* C12: GetOrDefault returns (Value wrapping the fallback, false) exactly
\* when its Get failed (load failure or field not found) and (the Value Get
\* returned, true) exactly when Get succeeded, an override value included;
\* it never returns a nil Value.
C12_GetOrDefault ==
    \A p \in Procs :
        LET g == god[p]
        IN  g.pc = "returned"
                => /\ ~g.v.nil
                   /\ g.ok = ~GetFailed(g.get)
                   /\ GetFailed(g.get) = ~g.get.err.nil
                   /\ GetFailed(g.get) => g.v = NewValue(Str(g.fallback))
                   /\ ~GetFailed(g.get) => g.v = g.get.v
                   /\ g.get.from = "env" => g.ok /\ g.v = NewValue(Str(ConcEnv[g.get.envKey]))

\* GetOrDefault has returned the fallback after a load failure, after a
\* missing field, and has returned an override value
C12_Witness ==
    \E p \in Procs :
        /\ god[p].pc = "returned"
        /\ ~god[p].ok
        /\ god[p].fallback = "foo"
        /\ god[p].v = NewValue(Str("foo"))
        /\ \/ ~god[p].get.resp.ok /\ god[p].get.from = "store"
           \/ god[p].get.item /\ god[p].get.field = FieldG

\* C13: with Close called sequentially, the closed flag is false until the
\* first Close has stopped the cache and never returns to false, the cache's expiration loop is stopped and the store client
\* released at most once, both exactly once as soon as the flag is set, and
\* a Close called with the flag set changes no state.
C13_CloseIdempotent ==
    [][ /\ stops = 0 => ~closed
        /\ closed => closed'
        /\ stops' <= 1
        /\ released' <= 1
        /\ closed' => stops' = 1 /\ released' = 1 /\ sweeper' = "stopped"
        /\ \A p \in Procs :
              (closed /\ closing[p] = "none" /\ closing'[p] # "none")
                  => /\ closing'[p] = "noop"
                     /\ UNCHANGED <<envOverride, env, ttl, given, store, cache, now, call, loads,
                                    god, closed, sweeper, stops, released,
                                    watch, cancel, acc>>
      ]_vars

\* a second Close has returned without doing anything
C13_Witness ==
    /\ closed
    /\ stops = 1
    /\ released = 1
    /\ closing["g1"] = "noop"
    /\ sweeper = "stopped"

\* C14: for any interleaving of concurrent Close calls, the cache stop and
\* the client release are each performed at most once, exactly once when a
\* Close has returned, and no Close call is left waiting in cache.Stop()
\* for an expiration loop that has already exited.
C14_ConcurrentClose ==
    /\ stops <= 1
    /\ released <= 1
    /\ \A p \in Procs :
          /\ closing[p] = "returned" => stops = 1 /\ released = 1
          /\ closing[p] = "stop" => sweeper = "running"

----------------------------------------------------------------------------
(* C19, C20: the accessors of a Value *)

\* C19: Data() returns ok=true only on a Value obtained from a path
\* without a field name; on a Value obtained from a path with a field name
\* it returns ok=false whatever the type of the field's raw value.
C19_DataOnlyWholeDocument ==
    acc.method = "Data"
        => /\ acc.out.ok => acc.field = <<>>
           /\ acc.field # <<>> => ~acc.out.ok

\* the texts Go parses as a base-10 integer, as a float, as a duration
IntTexts == {Chars[s] : s \in {"0", "1", "42", "-7", "+5"}}
FloatTexts == IntTexts \cup {Chars[s] : s \in {"1.5", ".5", "1e3"}}
DurationTexts == {Chars[s] : s \in {"0", "3s", "15ms", "1m30s", "1.5h", "-2m", "7us"}}

\* C20: every accessor answers a raw value of any type with (coerced
\* value, true) or (zero value, false): Bool, Int, Int64, Float64 and
\* Duration succeed exactly on the texts that parse, Map and StringSlice
\* give (empty, false) on a value that is no mapping / no sequence, and Bool
\* gives (b, true) on a native boolean b, the parsed boolean on "true" and
\* "false", and (false, false) on text that does not parse.
C20_CoercionNeverFails ==
    LET o == acc.out
        r == acc.raw
    IN  /\ acc.method # "none" => o.ok \in BOOLEAN
        /\ acc.method = "Bool"
              => /\ o.val \in BOOLEAN
                 /\ ~o.ok => o.val = FALSE
                 /\ r.kind = "bool" => o = [val |-> r.bool, ok |-> TRUE]
                 /\ r = Str("true") => o = [val |-> TRUE, ok |-> TRUE]
                 /\ r = Str("false") => o = [val |-> FALSE, ok |-> TRUE]
                 /\ r \in {Str("notabool"), Str("42"), Str(""), NoRaw}
                        => o = [val |-> FALSE, ok |-> FALSE]
                 /\ r.kind \in {"map", "slice", "number"} => o = [val |-> FALSE, ok |-> FALSE]
        /\ acc.method \in {"Int", "Int64"}
              => /\ o.val \in -99..99
                 /\ o.ok = (r.kind # "bool" /\ acc.text \in IntTexts)
                 /\ ~o.ok => o.val = 0
                 /\ r \in {Str("42"), Number("42")} => o = [val |-> 42, ok |-> TRUE]
                 /\ r \in {Str("-7"), Number("-7")} => o = [val |-> -7, ok |-> TRUE]
        /\ acc.method = "Float64"
              => /\ o.ok = (r.kind # "bool" /\ acc.text \in FloatTexts)
                 /\ ~o.ok => o.val = NoFloat
                 /\ r \in {Str("1.5"), Number("1.5")} => o = [val |-> [mant |-> 15, exp |-> -1], ok |-> TRUE]
        /\ acc.method = "Duration"
              => /\ o.ok = (r.kind # "bool" /\ acc.text \in DurationTexts)
                 /\ ~o.ok => o.val = 0
                 /\ r = Str("3s") => o = [val |-> 3000, ok |-> TRUE]
                 /\ r = Str("1m30s") => o = [val |-> 90000, ok |-> TRUE]
        /\ acc.method = "Map"
              => /\ o.ok = (r.kind = "map")
                 /\ ~o.ok => o.val = EmptyDoc
                 /\ o.ok => DOMAIN o.val = DOMAIN r.map
        /\ acc.method = "StringSlice"
              => /\ o.ok = (r.kind = "slice")
                 /\ ~o.ok => o.val = <<>>
                 /\ o.ok => Len(o.val) = Len(r.list)

\* Bool was called on a field holding text that is no boolean
C20_Witness ==
    /\ acc.method = "Bool"
    /\ acc.field = FieldF
    /\ acc.raw = Str("notabool")
    /\ acc.out = [val |-> FALSE, ok |-> FALSE]

----------------------------------------------------------------------------
(* C15 .. C18: Watch *)

\* C15: once Watch is registered, a change of the watched document in the
\* store is reported to the callback, with the value the store then holds,
\* no later than one poll interval (TTL + margin) after the change.
C15_DetectsWithinInterval ==
    (/\ watch.pc \notin {"none", "cancelled"}
     /\ ~watch.requested
     /\ watch.mutAt >= 0
     /\ ~watch.told)
        => now - watch.mutAt <= PollInterval

\* C16: after the cancel handle has been invoked the callback is started at
\* most once more, and never after the polling goroutine has left its loop.
C16_AtMostOneMore ==
    [][ /\ watch'.fired <= 1
        /\ watch.pc = "cancelled" => watch'.pc = "cancelled" /\ watch'.fired = watch.fired
      ]_vars

\* the cancel handle was invoked while a poll was under way, the callback
\* ran once more, and the goroutine then stopped
C16_Witness ==
    /\ watch.pc = "cancelled"
    /\ watch.fired = 1

\* C17: a cancel handle invoked once from outside the callback eventually
\* returns, and the polling goroutine eventually terminates.
C17_CancelTerminates ==
    (cancel["g2"] = "sending") ~> (cancel["g2"] = "returned" /\ watch.pc = "cancelled")

\* the cancel call has returned and the goroutine has left its loop
C17_Witness ==
    /\ cancel["g2"] = "returned"
    /\ watch.pc = "cancelled"
    /\ watch.requested

\* C18: when the initial Get of a registration fails, the registration
\* goes on to poll with the Value wrapping "" as its baseline, the cancel
\* handle works, and the first poll that succeeds is compared against that
\* baseline.
C18_MissingPath ==
    (watch.pc \notin {"none", "initial"} /\ watch.initErr)
        => /\ ~watch.compared => watch.old = NewValue(Str(""))
           /\ watch.compared => watch.firstOld = NewValue(Str(""))
           /\ watch.pc = "cancelled" => \E p \in Procs : cancel[p] \in {"returned", "done"}

\* the path was missing at registration, appeared later, and the callback
\* is running with its value after a comparison against the "" baseline
C18_Witness ==
    /\ watch.initErr
    /\ watch.compared
    /\ watch.firstOld = NewValue(Str(""))
    /\ watch.pc = "callback"
    /\ watch.new = NewValue(Str("v2"))

----------------------------------------------------------------------------
(* C21 .. C30 *)

\* C21: the TTL of a client built by New is the default (5 minutes) when
\* the cacheTTL given is 0, the minimum (30 seconds) when it is non-zero and
\* below 30 seconds, negative values included, and the cacheTTL given
\* otherwise; it is never below 30 seconds and no operation changes it.
C21_TTLConfiguration ==
    [][ /\ ttl' = ttl
        /\ given' = given
        /\ ttl >= 30
        /\ given = 0 => ttl = 300
        /\ (given # 0 /\ given < 30) => ttl = 30
        /\ given >= 30 => ttl = given
        /\ cache' # cache
              => \A k \in DOMAIN cache' :
                    (k \notin DOMAIN cache \/ cache'[k] # cache[k])
                        => cache'[k].ttl = ttl
      ]_vars

\* a client built with a negative cacheTTL has loaded a document with the
\* minimum TTL
C21_Witness ==
    /\ given = -5
    /\ ttl = MinimumCacheTTL
    /\ KeyA \in DOMAIN cache
    /\ cache[KeyA].ttl = MinimumCacheTTL
    /\ now > 0

\* C22: a load that fails adds no entry for its key and changes no other
\* entry; a Get that finds no unexpired entry for its key calls the store
\* again, and when the store then answers the Get succeeds with the
\* document the store holds and caches it.
C22_NoCachePoisoning ==
    [][ \A p \in Procs :
          /\ (call[p].pc = "fetched" /\ ~call[p].resp.ok /\ call'[p].pc = "done")
                => /\ cache' = cache
                   /\ ~call'[p].err.nil
          /\ (call[p].pc = "idle" /\ call'[p].pc # "idle" /\ call'[p].from # "env"
                /\ ~(call'[p].key \in DOMAIN cache /\ ~isExpired(cache[call'[p].key])))
                => call'[p].pc = "load"
          /\ (call[p].pc = "load" /\ call'[p].pc = "fetched")
                => call'[p].resp = store[call[p].key]
          /\ (call[p].pc = "fetched" /\ call[p].resp.ok /\ call'[p].pc = "done")
                => /\ call'[p].item
                   /\ call'[p].doc = call[p].resp.data
                   /\ call[p].key \in DOMAIN cache'
                   /\ cache'[call[p].key].value = call[p].resp.data
      ]_vars

\* one caller's load of a key failed; the store then answered another
\* caller's Get of the same key, which fetched once and cached the document
C22_Witness ==
    /\ call["g1"].pc = "done"
    /\ call["g1"].from = "store"
    /\ ~call["g1"].resp.ok
    /\ call["g2"].pc = "done"
    /\ call["g2"].from = "store"
    /\ call["g2"].resp.ok
    /\ call["g2"].fetches = 1
    /\ call["g2"].key = call["g1"].key
    /\ call["g2"].key \in DOMAIN cache
    /\ cache[call["g2"].key].value = call["g2"].doc

\* C23: a poll whose Get fails calls neither comparator nor callback, keeps
\* the baseline, and leaves the polling goroutine in its loop with a fresh
\* timer of one poll interval; the goroutine leaves its loop only by
\* receiving the cancel signal.
C23_FailedPollSkipped ==
    [][ /\ (watch.pc = "poll" /\ call[Watcher].pc = "done" /\ ~call[Watcher].err.nil
              /\ call'[Watcher].pc = "idle")
              => watch' = [watch EXCEPT !.pc = "select", !.lastPoll = "failed",
                                        !.timerAt = now + ttl + 1]
        /\ (watch.pc # "cancelled" /\ watch'.pc = "cancelled")
              => /\ watch.pc = "select"
                 /\ \E p \in Procs : cancel[p] = "sending" /\ cancel'[p] = "returned"
      ]_vars

\* the store went away after the callback had reported v1: the poll
\* failed, the baseline is still v1 and the goroutine waits for the next poll
C23_Witness ==
    /\ watch.pc = "select"
    /\ watch.lastPoll = "failed"
    /\ watch.old = NewValue(Str("v1"))
    /\ store[KeyA] = Sealed
    /\ watch.timerAt = now + PollInterval

C25_NoOverlap ==
    [][ /\ watch.active \in {0, 1}
        /\ (watch.active = 1) = (watch.pc = "callback")
        /\ watch.pc = "callback"
              => /\ call[Watcher].pc = "idle" /\ call'[Watcher].pc = "idle"
                 /\ watch'.pc \in {"callback", "select"}
                 /\ watch'.pc = "callback" => watch'.timerAt = watch.timerAt
                 /\ watch'.pc = "select" => watch'.timerAt = now + ttl + 1 /\ watch'.active = 0
      ]_vars

\* the callback is running for the second time, alone
C25_Witness ==
    /\ watch.pc = "callback"
    /\ watch.active = 1
    /\ watch.old = NewValue(Str("v2"))
    /\ watch.new = NewValue(Str("v1"))
    /\ watch.firstOld = NewValue(Str(""))

\* C26: every poll's Get finds the cache entry of the watched document
\* expired or absent and reads the store, also when other callers call Get
\* for the same document key between polls.
C26_PollReadsStore ==
    (watch.pc = "poll" /\ call[Watcher].pc = "done")
        => /\ call[Watcher].from = "store"
           /\ call[Watcher].fetches = 1

\* C27: the baseline of a registration is the value the path had when
\* Watch was called (the Value wrapping "" if it had none): a change of the
\* document made after Watch has returned is compared against that value.
C27_InitialSnapshotSynchronous ==
    watch.pc \notin {"none", "initial"} => watch.seed = watch.atCall

\* C28: a second invocation of the cancel handle, made after the first has
\* returned and the polling goroutine has terminated, returns.
C28_SecondCancelReturns ==
    (watch.again /\ cancel["g2"] = "sending") ~> (cancel["g2"] \in {"returned", "done"})

\* C29: a cancel handle invoked from inside the registration's callback
\* returns, the callback returns, and the polling goroutine then terminates
\* without a further callback.
C29_OneShot ==
    (watch.pc = "callback" /\ cancel[Watcher] = "sending")
        ~> (cancel[Watcher] \in {"returned", "done"} /\ watch.pc = "cancelled")

\* C30: once Close has returned, the cache's expiration loop has stopped
\* and no polling goroutine of a registration of the client is running.
C30_CloseReleasesAll ==
    closed => /\ sweeper = "stopped"
              /\ watch.pc \in {"none", "cancelled"}

====
